---------------------------- MODULE Spec2Model ----------------------------
(***************************************************************************)
(* kedro-azureml: lowering of a Kedro pipeline into an Azure ML pipeline   *)
(* job (kedro_azureml/generator.py, AzureMLPipelineGenerator).             *)
(*                                                                         *)
(* Strings are sequences of one-character strings, so that the two name    *)
(* sanitizers are computed character by character as re.sub / str.lower /  *)
(* str.replace compute them.  Python dicts are functions whose domain is   *)
(* the set of keys; assigning to an existing key overwrites it.            *)
(***************************************************************************)
EXTENDS Integers, Sequences, FiniteSets, TLC

VARIABLES
    nodes,                \* pipeline.nodes: the registered pipeline, topologically ordered
    pc,                   \* position inside generate()
    kedro_azure_run_id,   \* generate(): the uuid4().hex drawn at line 40
    commands,             \* kedro_azure_pipeline_fn: dict node.name -> command
    ci,                   \* index of the node the running for-loop is at
    invoked_components,   \* _connect_commands: dict node.name -> invoked component
    invoked_order,        \* insertion order of invoked_components
    declared_outputs,     \* the value pipeline.outputs() returned
    outputs_left,         \* pipeline outputs the for-loop of line 112 has not visited
    azure_pipeline_outputs, \* _gather_pipeline_outputs: dict token -> output handle
    job,                  \* what generate() returned to its caller
    error,                \* the exception generate() raised
    sh,                   \* a shell running one step's command string
    san                   \* an evaluation of _sanitize_param_name on a string

vars == <<nodes, pc, kedro_azure_run_id, commands, ci, invoked_components,
          invoked_order, declared_outputs, outputs_left, azure_pipeline_outputs,
          job, error, sh, san>>

---------------------------------------------------------------------------
(* Bounds of the model *)

MaxNodes == 2

MaxLen == 3

---------------------------------------------------------------------------
(* Characters and strings *)

UpperChars ==
    <<"A","B","C","D","E","F","G","H","I","J","K","L","M",
      "N","O","P","Q","R","S","T","U","V","W","X","Y","Z">>

LowerChars ==
    <<"a","b","c","d","e","f","g","h","i","j","k","l","m",
      "n","o","p","q","r","s","t","u","v","w","x","y","z">>

DigitChars == <<"0","1","2","3","4","5","6","7","8","9">>

Range(s) == {s[i] : i \in DOMAIN s}

\* the characters the pattern [^a-z0-9_] does not match
ParamSafeChars == Range(LowerChars) \cup Range(DigitChars) \cup {"_"}

\* str.lower() on one ASCII character
LowerChar(c) ==
    IF \E i \in DOMAIN UpperChars : UpperChars[i] = c
    THEN LowerChars[CHOOSE i \in DOMAIN UpperChars : UpperChars[i] = c]
    ELSE c

\* str.lower()
StrLower(s) == [i \in 1..Len(s) |-> LowerChar(s[i])]

\* the sanitizer with the call to lower() dropped
SanitizeParamNoLower(param_name) ==
    [i \in 1..Len(param_name) |->
        IF param_name[i] \in ParamSafeChars \cup Range(UpperChars)
        THEN param_name[i] ELSE "_"]

\* re.sub(r"[^a-z0-9_]", "_", param_name.lower())
_sanitize_param_name(param_name) ==
    [i \in 1..Len(param_name) |->
        IF StrLower(param_name)[i] \in ParamSafeChars
        THEN StrLower(param_name)[i] ELSE "_"]

RECURSIVE ReplaceDot(_)
\* str.replace(".", "__")
ReplaceDot(s) ==
    IF s = <<>> THEN <<>>
    ELSE (IF Head(s) = "." THEN <<"_", "_">> ELSE <<Head(s)>>) \o ReplaceDot(Tail(s))

\* name.lower().replace(".", "__")
_sanitize_azure_name(name) == ReplaceDot(StrLower(name))

---------------------------------------------------------------------------
(* Evaluations of _sanitize_param_name on bounded strings *)

\* sample of the character classes: upper and lower case, digits, underscore,
\* dot, space, punctuation
Alphabet == {"a", "z", "A", "Q", "0", "7", "_", ".", " ", "!", "-"}

Strings == UNION {[1..n -> Alphabet] : n \in 0..MaxLen}

SanIdle == [pc |-> "idle", x |-> <<>>, once |-> <<>>, twice |-> <<>>]

ShIdle ==
    [pc |-> "idle", node |-> [name |-> <<>>, inputs |-> <<>>, outputs |-> <<>>],
     cmd |-> <<>>, pos |-> 1, status |-> 0, body |-> "notrun", written |-> {}]

---------------------------------------------------------------------------
(* Python dicts *)

EmptyDict == [k \in {} |-> {}]

\* d[key] = value
Put(d, key, value) ==
    [k \in DOMAIN d \cup {key} |-> IF k = key THEN value ELSE d[k]]

---------------------------------------------------------------------------
(* The generator's constructor arguments (lines 20-34) *)

KedroEnvironment == "local"

PipelineName == "__default__"

\* self.config.azure.temporary_storage
TemporaryStorage == "abfs://container/tmp"

StorageAccountKey == "account-key"

\* self.docker_image or self.config.docker.image
DockerImage == "registry/image:latest"

\* the values uuid4().hex may return
RunIds == {"uuid-1", "uuid-2"}

---------------------------------------------------------------------------
(* The Kedro pipeline read through kedro.pipeline.Pipeline *)

\* dataset names: two that differ only in a character the parameter
\* sanitizer rewrites, and one with an upper-case letter
DatasetNames == { <<"a", ".", "b">>, <<"a", "_", "b">>, <<"C">> }

\* node names carry a namespace separator
NodeName(i) == <<"N", ".", DigitChars[i + 1]>>

DistinctSeqs(S) ==
    {s \in UNION {[1..n -> S] : n \in 0..Cardinality(S)} :
        \A i, j \in DOMAIN s : i # j => s[i] # s[j]}

\* kedro.pipeline.node: inputs and outputs are lists of dataset names, a
\* node has some input or output, and no dataset is both
NodeRecs(i) ==
    {n \in [name : {NodeName(i)}, inputs : DistinctSeqs(DatasetNames),
            outputs : DistinctSeqs(DatasetNames)] :
        /\ Range(n.inputs) \cap Range(n.outputs) = {}
        /\ n.inputs # <<>> \/ n.outputs # <<>>}

AllInputs(ns) == UNION {Range(ns[i].inputs) : i \in DOMAIN ns}

AllOutputs(ns) == UNION {Range(ns[i].outputs) : i \in DOMAIN ns}

\* Pipeline.inputs(): the datasets no node of the pipeline produces
PipelineInputs(ns) == AllInputs(ns) \ AllOutputs(ns)

\* Pipeline.outputs(): the datasets no node of the pipeline consumes
PipelineOutputs(ns) == AllOutputs(ns) \ AllInputs(ns)

\* Pipeline.node_dependencies[node]: the nodes producing one of its inputs
node_dependencies(ns, node) ==
    {ns[i] : i \in {j \in DOMAIN ns :
                      Range(ns[j].outputs) \cap Range(node.inputs) # {}}}

---------------------------------------------------------------------------
(* _prepare_command *)

ChainItem(chain, run, arg) == [chain |-> chain, run |-> run, arg |-> arg]

\* f"kedro run -e {self.kedro_environment} --pipeline={self.pipeline_name}
\*   --node={node.name} --runner=...": the words before the node's name
KedroRun ==
    <<"kedro", "run", "-e", KedroEnvironment, "--pipeline", PipelineName,
      "--runner", "kedroazureml.azurerunner.AzurePipelinesRunner", "--node">>

\* "echo 'Show must go on!' > ${{outputs.<token>}}/output.txt": the words
\* before the token
EchoPlaceholder == <<"echo", "Show must go on!", ">", "outputs">>

\* the command string with its steps separated by ";" instead of "&&"
PrepareCommandSemicolon(node) ==
    <<ChainItem("", <<"cd", "/home/kedro">>, <<>>),
      ChainItem(";", KedroRun, node.name)>>
    \o [k \in 1..Len(node.outputs) |->
          ChainItem(";", EchoPlaceholder, _sanitize_param_name(node.outputs[k]))]

\* "cd /home/kedro && kedro run ... --node={node.name} ..." followed, when
\* the node has outputs, by " && echo ... > ${{outputs.<token>}}/output.txt"
\* for each output: the string as the list of its chained steps, each with
\* the operator written before it
_prepare_command(node) ==
    <<ChainItem("", <<"cd", "/home/kedro">>, <<>>),
      ChainItem("&&", KedroRun, node.name)>>
    \o (IF node.outputs # <<>>
        THEN [k \in 1..Len(node.outputs) |->
                ChainItem("&&", EchoPlaceholder,
                          _sanitize_param_name(node.outputs[k]))]
        ELSE <<>>)

---------------------------------------------------------------------------
(* _construct_azure_command *)

\* {key(name): value(name) for name in names}: a later name overwrites an
\* earlier one that has the same key
LastWith(names, k) ==
    CHOOSE i \in DOMAIN names :
        /\ _sanitize_param_name(names[i]) = k
        /\ \A j \in DOMAIN names :
              j > i => _sanitize_param_name(names[j]) # k

ParamTokens(names) == {_sanitize_param_name(names[i]) : i \in DOMAIN names}

\* KedroAzureRunnerConfig(...).json()
RunnerConfigJson(run_id) ==
    [temporary_storage |-> TemporaryStorage, run_id |-> run_id,
     storage_account_key |-> StorageAccountKey]

\* the step builder with a run identifier of the step's own
ConstructCommandOwnRunId(ns, node, run_id) ==
    [name |-> _sanitize_azure_name(node.name),
     display_name |-> node.name,
     command |-> _prepare_command(node),
     environment_variables |->
        [KEDRO_AZURE_RUNNER_CONFIG |->
            [temporary_storage |-> TemporaryStorage,
             run_id |-> "uuid-of-step",
             storage_account_key |-> StorageAccountKey]],
     environment |-> DockerImage,
     inputs |-> [k \in ParamTokens(node.inputs) |->
                   IF node.inputs[LastWith(node.inputs, k)] \in PipelineInputs(ns)
                   THEN "string" ELSE "generic"],
     outputs |-> [k \in ParamTokens(node.outputs) |-> "generic"]]

_construct_azure_command(ns, node, run_id) ==
    [name |-> _sanitize_azure_name(node.name),
     display_name |-> node.name,
     command |-> _prepare_command(node),
     environment_variables |->
        [KEDRO_AZURE_RUNNER_CONFIG |-> RunnerConfigJson(run_id)],
     environment |-> DockerImage,
     inputs |-> [k \in ParamTokens(node.inputs) |->
                   IF node.inputs[LastWith(node.inputs, k)] \in PipelineInputs(ns)
                   THEN "string" ELSE "generic"],
     outputs |-> [k \in ParamTokens(node.outputs) |-> "generic"]]

---------------------------------------------------------------------------
(* _connect_commands *)

\* a value bound to an input: an output handle of an invoked component, or
\* a string
OutputHandle(step, token) ==
    [kind |-> "handle", step |-> step, output |-> token, value |-> <<>>]

Literal(name) ==
    [kind |-> "literal", step |-> <<>>, output |-> <<>>, value |-> name]

\* commands[node.name](**azure_inputs): the invoked component, exposing one
\* output handle per declared output
Invoke(cmd, azure_inputs) ==
    [component |-> cmd.display_name,
     inputs |-> azure_inputs,
     outputs |-> [t \in DOMAIN cmd.outputs |-> OutputHandle(cmd.display_name, t)]]

\* the loop over the nodes, run from the last node to the first
ConnectLoopNodeReversed(ns, i) == ns[Len(ns) + 1 - i]

\* for node in pipeline.nodes: the node of iteration i
ConnectLoopNode(ns, i) == ns[i]

RECURSIVE BindInputs(_, _, _, _)
\* the loop over node.inputs (lines 140-152) after its first k iterations;
\* ok is FALSE when a dict lookup of lines 147-148 raised KeyError.  Under
\* the single-producer invariant at most one dependency matches.
BindInputs(ns, node, invoked, k) ==
    IF k = 0 THEN [ok |-> TRUE, azure_inputs |-> EmptyDict]
    ELSE LET prev == BindInputs(ns, node, invoked, k - 1)
             node_input == node.inputs[k]
             sanitized_input_name == _sanitize_param_name(node_input)
             matches == {d \in node_dependencies(ns, node) :
                            node_input \in Range(d.outputs)}
         IN  IF ~prev.ok THEN prev
             ELSE IF matches # {}
             THEN LET output_from_deps == CHOOSE d \in matches : TRUE
                  IN  IF \/ output_from_deps.name \notin DOMAIN invoked
                         \/ sanitized_input_name \notin
                               DOMAIN invoked[output_from_deps.name].outputs
                      THEN [ok |-> FALSE, azure_inputs |-> prev.azure_inputs]
                      ELSE [ok |-> TRUE,
                            azure_inputs |->
                               Put(prev.azure_inputs, sanitized_input_name,
                                   invoked[output_from_deps.name]
                                       .outputs[sanitized_input_name])]
             ELSE [ok |-> TRUE,
                   azure_inputs |-> Put(prev.azure_inputs, sanitized_input_name,
                                        Literal(node_input))]

---------------------------------------------------------------------------
(* generate() *)

NoJob == [returned |-> FALSE, outputs |-> EmptyDict, steps |-> EmptyDict]

NoError == [raised |-> FALSE, type |-> "", dataset |-> <<>>]

Init ==
    /\ nodes = <<>>
    /\ pc = "registry"
    /\ kedro_azure_run_id = ""
    /\ commands = EmptyDict
    /\ ci = 1
    /\ invoked_components = EmptyDict
    /\ invoked_order = <<>>
    /\ declared_outputs = {}
    /\ outputs_left = {}
    /\ azure_pipeline_outputs = EmptyDict
    /\ job = NoJob
    /\ error = NoError
    /\ sh = ShIdle
    /\ san = SanIdle

\* The project registers the pipeline (kedro.framework.project.pipelines).
\* Kedro accepts a node only if no other node produces one of its outputs,
\* and keeps pipeline.nodes in topological order: a node is never followed
\* by a producer of one of its inputs.
RegisterNode ==
    /\ pc = "registry"
    /\ Len(nodes) < MaxNodes
    /\ \E n \in NodeRecs(Len(nodes) + 1) :
          /\ Range(n.outputs) \cap AllOutputs(nodes) = {}
          /\ Range(n.outputs) \cap AllInputs(nodes) = {}
          /\ nodes' = Append(nodes, n)
    /\ UNCHANGED <<pc, kedro_azure_run_id, commands, ci, invoked_components,
                   invoked_order, declared_outputs, outputs_left,
                   azure_pipeline_outputs, job, error, sh, san>>

\* generate(), lines 39-48: the pipeline is looked up, the run identifier
\* drawn, and the pipeline function entered
Generate ==
    /\ pc = "registry"
    /\ \E id \in RunIds : kedro_azure_run_id' = id
    /\ commands' = EmptyDict
    /\ ci' = 1
    /\ pc' = "construct"
    /\ UNCHANGED <<nodes, invoked_components, invoked_order, declared_outputs,
                   outputs_left, azure_pipeline_outputs, job, error, sh, san>>

\* lines 50-55: one iteration of the loop building the commands
ConstructCommand ==
    /\ pc = "construct"
    /\ ci <= Len(nodes)
    /\ commands' = Put(commands, nodes[ci].name,
                       _construct_azure_command(nodes, nodes[ci],
                                                kedro_azure_run_id))
    /\ ci' = ci + 1
    /\ UNCHANGED <<nodes, pc, kedro_azure_run_id, invoked_components,
                   invoked_order, declared_outputs, outputs_left,
                   azure_pipeline_outputs, job, error, sh, san>>

\* line 58 and lines 135-136: _connect_commands is entered
EnterConnect ==
    /\ pc = "construct"
    /\ ci > Len(nodes)
    /\ invoked_components' = EmptyDict
    /\ invoked_order' = <<>>
    /\ ci' = 1
    /\ pc' = "connect"
    /\ UNCHANGED <<nodes, kedro_azure_run_id, commands, declared_outputs,
                   outputs_left, azure_pipeline_outputs, job, error, sh, san>>

\* lines 137-153: one iteration of the loop over pipeline.nodes
ConnectNode ==
    /\ pc = "connect"
    /\ ci <= Len(nodes)
    /\ LET node == ConnectLoopNode(nodes, ci)
           bound == BindInputs(nodes, node, invoked_components, Len(node.inputs))
       IN  IF bound.ok
           THEN /\ invoked_components' =
                      Put(invoked_components, node.name,
                          Invoke(commands[node.name], bound.azure_inputs))
                /\ invoked_order' = Append(invoked_order, node.name)
                /\ ci' = ci + 1
                /\ UNCHANGED <<pc, error>>
           ELSE /\ pc' = "failed"
                /\ error' = [raised |-> TRUE, type |-> "KeyError", dataset |-> <<>>]
                /\ UNCHANGED <<invoked_components, invoked_order, ci>>
    /\ UNCHANGED <<nodes, kedro_azure_run_id, commands, declared_outputs,
                   outputs_left, azure_pipeline_outputs, job, sh, san>>

\* lines 61 and 111-112: _gather_pipeline_outputs is entered and reads
\* pipeline.outputs().  Line 117 provides for a declared output that no node
\* produces, so the set read is Kedro's, or Kedro's and one such name.
EnterGather ==
    /\ pc = "connect"
    /\ ci > Len(nodes)
    /\ \E extra \in SUBSET (DatasetNames \ AllOutputs(nodes)) :
          /\ Cardinality(extra) <= 1
          /\ declared_outputs' = PipelineOutputs(nodes) \cup extra
    /\ outputs_left' = declared_outputs'
    /\ azure_pipeline_outputs' = EmptyDict
    /\ pc' = "gather"
    /\ UNCHANGED <<nodes, kedro_azure_run_id, commands, ci, invoked_components,
                   invoked_order, job, error, sh, san>>

\* the loop of line 112 leaving at the first output without a producer and
\* handing back what it gathered
GatherOutputBreak ==
    /\ pc = "gather"
    /\ outputs_left # {}
    /\ \E pipeline_output \in outputs_left :
          LET sanitized_output_name == _sanitize_param_name(pipeline_output)
              producers == {i \in DOMAIN nodes :
                              pipeline_output \in Range(nodes[i].outputs)}
          IN  IF producers = {}
              THEN /\ outputs_left' = {}
                   /\ UNCHANGED azure_pipeline_outputs
              ELSE LET source_node ==
                          nodes[CHOOSE i \in producers :
                                   \A j \in producers : i <= j]
                   IN  /\ azure_pipeline_outputs' =
                             Put(azure_pipeline_outputs, sanitized_output_name,
                                 invoked_components[source_node.name]
                                     .outputs[sanitized_output_name])
                       /\ outputs_left' = outputs_left \ {pipeline_output}
    /\ UNCHANGED <<nodes, pc, error, kedro_azure_run_id, commands, ci,
                   invoked_components, invoked_order, declared_outputs, job,
                   sh, san>>

\* lines 112-123: one iteration of the loop over pipeline.outputs(), a set,
\* visited in any order
GatherOutput ==
    /\ pc = "gather"
    /\ outputs_left # {}
    /\ \E pipeline_output \in outputs_left :
          LET sanitized_output_name == _sanitize_param_name(pipeline_output)
              producers == {i \in DOMAIN nodes :
                              pipeline_output \in Range(nodes[i].outputs)}
          IN  IF producers = {}
              THEN /\ pc' = "failed"
                   /\ error' = [raised |-> TRUE, type |-> "ValueError",
                                dataset |-> pipeline_output]
                   /\ UNCHANGED <<azure_pipeline_outputs, outputs_left>>
              ELSE LET source_node ==
                          nodes[CHOOSE i \in producers :
                                   \A j \in producers : i <= j]
                   IN  /\ azure_pipeline_outputs' =
                             Put(azure_pipeline_outputs, sanitized_output_name,
                                 invoked_components[source_node.name]
                                     .outputs[sanitized_output_name])
                       /\ outputs_left' = outputs_left \ {pipeline_output}
                       /\ UNCHANGED <<pc, error>>
    /\ UNCHANGED <<nodes, kedro_azure_run_id, commands, ci, invoked_components,
                   invoked_order, declared_outputs, job, sh, san>>

\* lines 124, 64 and 70-71: the gathered outputs are returned and the job
\* built from the pipeline function handed to the caller
Return ==
    /\ pc = "gather"
    /\ outputs_left = {}
    /\ job' = [returned |-> TRUE, outputs |-> azure_pipeline_outputs,
               steps |-> invoked_components]
    /\ pc' = "done"
    /\ UNCHANGED <<nodes, kedro_azure_run_id, commands, ci, invoked_components,
                   invoked_order, declared_outputs, outputs_left,
                   azure_pipeline_outputs, error, sh, san>>

Next ==
    \/ RegisterNode
    \/ Generate
    \/ ConstructCommand
    \/ EnterConnect
    \/ ConnectNode
    \/ EnterGather
    \/ GatherOutput
    \/ Return

Spec == Init /\ [][Next]_vars

---------------------------------------------------------------------------
(* A step's command string run by the backend's shell *)

IsKedroRun(item) == Head(item.run) = "kedro"

IsEcho(item) == Head(item.run) = "echo"

\* cd and the node body may fail; the echo into the provisioned output
\* folder succeeds
ExitCodes(item) == IF IsEcho(item) THEN {0} ELSE {0, 1}

\* sh: "a && b" runs b only if a exited 0, "a ; b" runs b regardless
Runs(item, status) ==
    \/ item.chain = ""
    \/ item.chain = ";"
    \/ item.chain = "&&" /\ status = 0

ShInit ==
    /\ nodes = <<>>
    /\ pc = "shell"
    /\ kedro_azure_run_id = ""
    /\ commands = EmptyDict
    /\ ci = 1
    /\ invoked_components = EmptyDict
    /\ invoked_order = <<>>
    /\ declared_outputs = {}
    /\ outputs_left = {}
    /\ azure_pipeline_outputs = EmptyDict
    /\ job = NoJob
    /\ error = NoError
    /\ san = SanIdle
    /\ \E node \in NodeRecs(1) :
          sh = [pc |-> "running", node |-> node, cmd |-> _prepare_command(node),
                pos |-> 1, status |-> 0, body |-> "notrun", written |-> {}]

\* the shell reaches the next step of the chain and runs or skips it
ShStep ==
    /\ sh.pc = "running"
    /\ sh.pos <= Len(sh.cmd)
    /\ LET item == sh.cmd[sh.pos]
       IN  IF Runs(item, sh.status)
           THEN \E rc \in ExitCodes(item) :
                   sh' = [sh EXCEPT
                            !.pos = @ + 1,
                            !.status = rc,
                            !.body = IF IsKedroRun(item)
                                     THEN (IF rc = 0 THEN "ok" ELSE "failed")
                                     ELSE @,
                            !.written = IF IsEcho(item) /\ rc = 0
                                        THEN @ \cup {item.arg} ELSE @]
           ELSE sh' = [sh EXCEPT !.pos = @ + 1]
    /\ UNCHANGED <<nodes, pc, kedro_azure_run_id, commands, ci,
                   invoked_components, invoked_order, declared_outputs,
                   outputs_left, azure_pipeline_outputs, job, error, san>>

\* the shell exits with the status of the last step it ran
ShExit ==
    /\ sh.pc = "running"
    /\ sh.pos > Len(sh.cmd)
    /\ sh' = [sh EXCEPT !.pc = "exited"]
    /\ UNCHANGED <<nodes, pc, kedro_azure_run_id, commands, ci,
                   invoked_components, invoked_order, declared_outputs,
                   outputs_left, azure_pipeline_outputs, job, error, san>>

NextShell ==
    \/ ShStep
    \/ ShExit

SpecShell == ShInit /\ [][NextShell]_vars

---------------------------------------------------------------------------
(* _sanitize_param_name applied once and again *)

SanInit ==
    /\ nodes = <<>>
    /\ pc = "sanitizer"
    /\ kedro_azure_run_id = ""
    /\ commands = EmptyDict
    /\ ci = 1
    /\ invoked_components = EmptyDict
    /\ invoked_order = <<>>
    /\ declared_outputs = {}
    /\ outputs_left = {}
    /\ azure_pipeline_outputs = EmptyDict
    /\ job = NoJob
    /\ error = NoError
    /\ sh = ShIdle
    /\ \E x \in Strings :
          san = [pc |-> "start", x |-> x, once |-> <<>>, twice |-> <<>>]

SanitizeOnce ==
    /\ san.pc = "start"
    /\ san' = [san EXCEPT !.pc = "once", !.once = _sanitize_param_name(san.x)]
    /\ UNCHANGED <<nodes, pc, kedro_azure_run_id, commands, ci,
                   invoked_components, invoked_order, declared_outputs,
                   outputs_left, azure_pipeline_outputs, job, error, sh>>

SanitizeTwice ==
    /\ san.pc = "once"
    /\ san' = [san EXCEPT !.pc = "twice",
                          !.twice = _sanitize_param_name(san.once)]
    /\ UNCHANGED <<nodes, pc, kedro_azure_run_id, commands, ci,
                   invoked_components, invoked_order, declared_outputs,
                   outputs_left, azure_pipeline_outputs, job, error, sh>>

NextSan ==
    \/ SanitizeOnce
    \/ SanitizeTwice

SpecSan == SanInit /\ [][NextSan]_vars

---------------------------------------------------------------------------
(* Properties *)

ParamToken(d) == _sanitize_param_name(d)

\* the nodes of the pipeline that list dataset d among their outputs
ProducersOf(d) == {i \in DOMAIN nodes : d \in Range(nodes[i].outputs)}

\* the position of a step in the order the steps were invoked
InvokedAt(name) == CHOOSE k \in DOMAIN invoked_order : invoked_order[k] = name

\* the steps whose output handles are bound to inputs of the step
UpstreamOf(name) ==
    {invoked_components[name].inputs[t].step :
        t \in {u \in DOMAIN invoked_components[name].inputs :
                 invoked_components[name].inputs[u].kind = "handle"}}

\* C1: every input of every invoked node that is a pipeline input is bound
\* to the raw dataset name, and every other input with a producer among the
\* node's dependencies is bound to that producer's output handle for the
\* sanitized name.
C1_Completeness ==
    \A i \in DOMAIN nodes :
        nodes[i].name \in DOMAIN invoked_components =>
        \A k \in DOMAIN nodes[i].inputs :
            LET d == nodes[i].inputs[k]
                bound == invoked_components[nodes[i].name].inputs[ParamToken(d)]
                producers == {p \in node_dependencies(nodes, nodes[i]) :
                                d \in Range(p.outputs)}
            IN  /\ d \in PipelineInputs(nodes) => bound = Literal(d)
                /\ (d \notin PipelineInputs(nodes) /\ producers # {}) =>
                      \E p \in producers :
                          bound = OutputHandle(p.name, ParamToken(d))

\* C2: no dict lookup of _connect_commands misses, and every output handle
\* bound to an input of a step belongs to a step invoked strictly earlier.
C2_TopologicalSoundness ==
    /\ error.type # "KeyError"
    /\ \A name \in DOMAIN invoked_components :
          \A up \in UpstreamOf(name) :
              /\ up \in DOMAIN invoked_components
              /\ InvokedAt(up) < InvokedAt(name)

C2_Witness ==
    /\ pc = "done"
    /\ \E name \in DOMAIN invoked_components : UpstreamOf(name) # {}

\* C3: a returned mapping holds, for every declared pipeline output, the
\* output handle of its producer, one entry per declared output; and a
\* declared output without a producer ends generate() with the error.
C3_OutputResolutionTotality ==
    /\ pc = "done" =>
          /\ \A po \in declared_outputs :
                /\ ProducersOf(po) # {}
                /\ ParamToken(po) \in DOMAIN job.outputs
                /\ \E i \in ProducersOf(po) :
                      job.outputs[ParamToken(po)] =
                          OutputHandle(nodes[i].name, ParamToken(po))
          /\ Cardinality(DOMAIN job.outputs) = Cardinality(declared_outputs)
    /\ pc = "failed" =>
          /\ error.raised
          /\ error.dataset \in declared_outputs
          /\ ProducersOf(error.dataset) = {}

\* C4: the steps whose output handles a step's inputs are bound to are
\* exactly the node's dependencies.
C4_EdgesReproduced ==
    \A i \in DOMAIN nodes :
        nodes[i].name \in DOMAIN invoked_components =>
            UpstreamOf(nodes[i].name) =
                {p.name : p \in node_dependencies(nodes, nodes[i])}

\* C5: once a command is built or a step wired, no two distinct dataset
\* names of the pipeline share a parameter token and no two node names share
\* a step identifier.
C5_CollisionDetected ==
    (DOMAIN commands # {} \/ DOMAIN invoked_components # {} \/ job.returned) =>
        /\ \A d1, d2 \in AllInputs(nodes) \cup AllOutputs(nodes) :
              ParamToken(d1) = ParamToken(d2) => d1 = d2
        /\ \A i, j \in DOMAIN nodes :
              _sanitize_azure_name(nodes[i].name) =
                  _sanitize_azure_name(nodes[j].name) => i = j

\* C6: when a declared pipeline output has no producer, generate() ends with
\* an error naming such a dataset and returns no job and no mapping; a job
\* is returned only if every declared output has a producer.
C6_NoPartialGraph ==
    /\ pc = "failed" =>
          /\ error.raised
          /\ error.type = "ValueError"
          /\ error.dataset \in declared_outputs
          /\ ProducersOf(error.dataset) = {}
          /\ job = NoJob
    /\ job.returned =>
          /\ ~error.raised
          /\ \A po \in declared_outputs : ProducersOf(po) # {}

C6_Witness ==
    /\ pc = "failed"
    /\ DOMAIN azure_pipeline_outputs # {}
    /\ ProducersOf(error.dataset) = {}

\* C7: the shell writes a placeholder only once the node body has exited 0,
\* never after a failed body; a chain that ran through with a successful
\* body has written every output's placeholder; the command holds one
\* placeholder write per output token and none for a node without outputs.
C7_SuccessGatedPlaceholders ==
    sh.pc # "idle" =>
        /\ sh.written # {} => sh.body = "ok"
        /\ sh.body = "failed" => sh.written = {}
        /\ (sh.pc = "exited" /\ sh.body = "ok") =>
              sh.written = ParamTokens(sh.node.outputs)
        /\ {sh.cmd[k].arg : k \in {j \in DOMAIN sh.cmd : IsEcho(sh.cmd[j])}} =
              ParamTokens(sh.node.outputs)
        /\ sh.node.outputs = <<>> => \A k \in DOMAIN sh.cmd : ~IsEcho(sh.cmd[k])

C7_Witness ==
    /\ sh.pc = "exited"
    /\ sh.body = "ok"
    /\ Len(sh.node.outputs) >= 2
    /\ Cardinality(sh.written) >= 2

\* C8: each command declares the input under a sanitized name as a string
\* exactly when the dataset is a pipeline input, as a generic artifact
\* otherwise, and every output as a generic artifact.
C8_InputTyping ==
    \A i \in DOMAIN nodes :
        nodes[i].name \in DOMAIN commands =>
            /\ \A k \in DOMAIN nodes[i].inputs :
                  LET d == nodes[i].inputs[k]
                      kind == commands[nodes[i].name].inputs[ParamToken(d)]
                  IN  /\ kind = "string" <=> d \in PipelineInputs(nodes)
                      /\ kind = "generic" <=> d \notin PipelineInputs(nodes)
            /\ \A k \in DOMAIN nodes[i].outputs :
                  commands[nodes[i].name]
                      .outputs[ParamToken(nodes[i].outputs[k])] = "generic"

\* C9: the sanitized string has the length of the input and only characters
\* of [a-z0-9_], and sanitizing it again returns it unchanged.
C9_SanitizeIdempotent ==
    /\ san.pc \in {"once", "twice"} =>
          /\ Len(san.once) = Len(san.x)
          /\ Range(san.once) \subseteq ParamSafeChars
    /\ san.pc = "twice" => san.twice = san.once

C9_Witness ==
    /\ san.pc = "twice"
    /\ Len(san.x) = MaxLen
    /\ san.once # san.x
    /\ \E i \in DOMAIN san.x : san.x[i] \in Range(UpperChars)
    /\ \E i \in DOMAIN san.x : san.x[i] \notin ParamSafeChars \cup Range(UpperChars)

\* C10: every command built carries exactly the one run-context variable,
\* holding the run identifier drawn for this call of generate(), the
\* temporary storage and the storage key, so all steps carry the same one.
C10_OneRunContext ==
    /\ \A name \in DOMAIN commands :
          /\ DOMAIN commands[name].environment_variables =
                {"KEDRO_AZURE_RUNNER_CONFIG"}
          /\ commands[name].environment_variables.KEDRO_AZURE_RUNNER_CONFIG =
                [temporary_storage |-> TemporaryStorage,
                 run_id |-> kedro_azure_run_id,
                 storage_account_key |-> StorageAccountKey]
    /\ \A n1, n2 \in DOMAIN commands :
          commands[n1].environment_variables =
              commands[n2].environment_variables
    /\ pc # "registry" => kedro_azure_run_id \in RunIds

C10_Witness ==
    /\ pc = "done"
    /\ Cardinality(DOMAIN commands) >= 2

====
